---- MODULE Spec2Model ----
(***************************************************************************)
(* Node lifecycle and genesis bootstrap of a vault node                    *)
(* (src/src/node/node_duties/mod.rs).                                      *)
(*                                                                         *)
(* Specifications over the same handlers:                                  *)
(*   Spec        one node, every lifecycle event with every input, in any  *)
(*               order (at-least-once, reordered delivery, collaborator    *)
(*               failures);                                                *)
(*   Replay      the same node with three elder duties to queue and replay;*)
(*   LaterSection  a node of a section other than the first;               *)
(*   Rounds      a node of the first section, shares of all five signers;  *)
(*   GenesisRun  the five nodes of the first section, promoted one by one, *)
(*               exchanging the ProposeGenesis / AccumulateGenesis         *)
(*               broadcasts their handlers return;                         *)
(*   Lifetime    a node of the first section with its ProposeGenesis       *)
(*               broadcasts counted.                                       *)
(* Beside the node: KeySection (WalletSection::pre_elder and enable,       *)
(* elder_duties/key_section/mod.rs) and Capacity (max_section_nanos,       *)
(* capacity/rate_limit.rs).                                                *)
(***************************************************************************)
EXTENDS Integers, Sequences, FiniteSets, TLC

GENESIS_ELDER_COUNT == 5

\* threshold() of the group's public key set: T+1 shares are needed.
Threshold == 2

\* Longest duty queue / list of processed duties the model follows.
MaxQueue == 3

\* Largest elder count and section chain length a network read returns.
MaxElderCount == 6

MaxChainLen == 6

\* Promotions that may overtake the handling of an AssumeElderDuties event.
MaxLag == 1

\* Largest key of a share mapping (BTreeMap<usize, SignatureShare>) the model
\* follows.
MaxIndex == 7

Nodes == 1..GENESIS_ELDER_COUNT

\* The node of the one-node specification.
Self == CHOOSE n \in Nodes : \A m \in Nodes : n <= m

Duties == {"d1", "d2", "d3"}

SectionKey == "section_pk"

RewardKey == "reward_key"

-----------------------------------------------------------------------------
(* Artifacts: Credit, SignedCredit, CreditProof, as one record shape.      *)

\* u32::MAX in limbs of 10^9, least significant first.
U32_MAX == <<294967295, 4>>

\* u32::MAX as u64 * 1_000_000_000, in limbs of 10^9.
genesis_balance == <<0>> \o U32_MAX

\* const MAX_SUPPLY: u64 = u32::MAX as u64 * 1_000_000_000_u64, in limbs of 10^9.
MAX_SUPPLY == <<0>> \o U32_MAX

NoArt ==
    [kind |-> "None", id |-> 0, amount |-> <<>>, recipient |-> "",
     actor_sig |-> "none", replicas_sig |-> "none"]

Credit(id, recipient) ==
    [kind |-> "Credit", id |-> id, amount |-> genesis_balance,
     recipient |-> recipient, actor_sig |-> "none", replicas_sig |-> "none"]

SignedCredit(credit, actor_signature) ==
    [credit EXCEPT !.kind = "SignedCredit", !.actor_sig = actor_signature]

CreditProof(signed_credit, debiting_replicas_sig) ==
    [signed_credit EXCEPT !.kind = "CreditProof",
                          !.replicas_sig = debiting_replicas_sig]

\* Credit { id: Default::default(), .. } of the originator.
GenesisCredit == Credit(0, SectionKey)

\* A credit some other party made up.
ForeignCredit == Credit(1, SectionKey)

SignatureShare(index, over) == [index |-> index, over |-> over]

\* BTreeMap<usize, bls::SignatureShare>: Default::default().
NoSignatures == [i \in 1..MaxIndex |-> NoArt]

Signers(signatures) == {i \in DOMAIN signatures : signatures[i].kind # "None"}

\* Variant: a share goes to the end of the mapping whatever its signer index
\* (a list of shares instead of a map keyed by index).
insert_at_end(signatures, share) ==
    LET free == {i \in DOMAIN signatures : \A j \in Signers(signatures) : j < i}
    IN  IF free = {} THEN signatures
        ELSE [signatures EXCEPT ![CHOOSE i \in free : \A j \in free : i <= j] =
                                     share.over]

\* signatures.insert(sig.index, sig.share)
insert(signatures, share) == [signatures EXCEPT ![share.index] = share.over]

\* The node's own share over a payload.
sign_as_elder(n, payload) == SignatureShare(n, payload)

\* Interpolation of the recorded shares: a signature of the artifact only
\* when every share is a share over that artifact.
combine_signatures(signatures, artifact) ==
    IF \A i \in Signers(signatures) : signatures[i] = artifact
    THEN "valid" ELSE "invalid"

-----------------------------------------------------------------------------
(* Stage, as one record shape.                                             *)

EmptyWallet == [credits |-> <<>>, debits |-> <<>>]

\* calls: what the subsystem has been asked to do, in order.
NoDuties ==
    [wallet_info |-> EmptyWallet, genesis |-> <<>>, processed |-> <<>>,
     calls |-> <<>>]

StageOf(tag, artifact, signatures, pending, queue, duties) ==
    [tag |-> tag, artifact |-> artifact, signatures |-> signatures,
     pending_agreement |-> pending, queued_ops |-> queue, duties |-> duties]

Infant == StageOf("Infant", NoArt, NoSignatures, NoArt, <<>>, NoDuties)

Adult == StageOf("Adult", NoArt, NoSignatures, NoArt, <<>>, NoDuties)

AwaitingGenesisThreshold(queue) ==
    StageOf("AwaitingGenesisThreshold", NoArt, NoSignatures, NoArt, queue, NoDuties)

ProposingGenesis(proposal, signatures, pending, queue) ==
    StageOf("ProposingGenesis", proposal, signatures, pending, queue, NoDuties)

AccumulatingGenesis(agreed_proposal, signatures, pending, queue) ==
    StageOf("AccumulatingGenesis", agreed_proposal, signatures, pending, queue, NoDuties)

AssumingElderDuties(queue) ==
    StageOf("AssumingElderDuties", NoArt, NoSignatures, NoArt, queue, NoDuties)

Elder(duties) == StageOf("Elder", NoArt, NoSignatures, NoArt, <<>>, duties)

GenesisTags == {"AwaitingGenesisThreshold", "ProposingGenesis", "AccumulatingGenesis"}

TransitionalTags == GenesisTags \cup {"AssumingElderDuties"}

-----------------------------------------------------------------------------
(* Operations a handler returns, as one record shape.                      *)

\* dst: the section key of DstLocation::Section(..) of an outgoing message.
Op(op, msg, dst, payload, sig, duty) ==
    [op |-> op, msg |-> msg, dst |-> dst, payload |-> payload, sig |-> sig,
     duty |-> duty]

NoSig == SignatureShare(0, NoArt)

SendProposeGenesis(dst, credit, sig) ==
    Op("Send", "ProposeGenesis", dst, credit, sig, "")

SendAccumulateGenesis(dst, signed_credit, sig) ==
    Op("Send", "AccumulateGenesis", dst, signed_credit, sig, "")

QueryWalletHistory ==
    Op("Send", "GetSectionWalletHistory", SectionKey, NoArt, NoSig, "")

SendRegisterWallet == Op("Send", "RegisterWallet", RewardKey, NoArt, NoSig, "")

RegisterWalletDuty == Op("RunAsNode", "RegisterWallet", "", NoArt, NoSig, "")

AddNewNode == Op("RewardCmd", "AddNewNode", "", NoArt, NoSig, "")

SetNodeWallet == Op("RewardCmd", "SetNodeWallet", "", NoArt, NoSig, "")

ElderOp(duty) == Op("ElderOp", "", "", NoArt, NoSig, duty)

CatchupOp == Op("ElderOp", "CatchupWithSection", "", NoArt, NoSig, "")

ElderChangeOp(msg) == Op("ElderOp", msg, "", NoArt, NoSig, "")

\* What a handler leaves behind: the new Stage and the returned Result.
Out(stage, result, ops) == [stage |-> stage, result |-> result, ops |-> ops]

-----------------------------------------------------------------------------
(* Collaborator failures (signing, ElderState / ElderDuties construction,  *)
(* processing of a duty) are inputs of the handlers: the step that fails.  *)

FailPoints == {"none", "sign", "new", "initiate", "duty"}

\* section_chain_len <= 5 of the genesis branches.
GenesisChainBound == 5

(* GenesisProposal::add and GenesisAccumulation::add (genesis.rs): record  *)
(* the share under its signer index; with T+1 distinct shares combine them *)
(* into the round's aggregate; an aggregate once set is final.             *)
Aggregate(b) ==
    IF b.tag = "ProposingGenesis"
    THEN SignedCredit(b.artifact, combine_signatures(b.signatures, b.artifact))
    ELSE CreditProof(b.artifact, combine_signatures(b.signatures, b.artifact))

add(bootstrap, sig) ==
    IF bootstrap.pending_agreement.kind # "None"
    THEN bootstrap
    ELSE LET b == [bootstrap EXCEPT !.signatures = insert(@, sig)]
         IN  IF Cardinality(Signers(b.signatures)) >= Threshold + 1
             THEN [b EXCEPT !.pending_agreement = Aggregate(b)]
             ELSE b

(* ElderDuties (elder_duties/mod.rs): initiate seeds the ledger with the   *)
(* genesis event when there is one and otherwise catches up with the       *)
(* section; process_elder_duty runs one duty and returns its operations.   *)
initiate(genesis) == IF genesis.kind # "None" THEN <<>> ELSE <<CatchupOp>>

process_elder_duty(duty) == <<ElderOp(duty)>>

ElderDutiesNew(wallet_info) ==
    [wallet_info |-> wallet_info, genesis |-> <<>>, processed |-> <<>>,
     calls |-> <<>>]

\* duties.initiate(genesis): the ledger takes the genesis event.
Initiated(duties, genesis) ==
    IF genesis.kind # "None"
    THEN [duties EXCEPT !.genesis = Append(@, genesis),
                        !.calls = Append(@, "init_genesis_node")]
    ELSE [duties EXCEPT !.calls = Append(@, "catchup_with_section")]

\* Variant: the queue is replayed from its back (pop_back instead of drain).
RECURSIVE drain_into_lifo(_, _)
drain_into_lifo(acc, queued_duties) ==
    IF queued_duties = <<>> THEN acc
    ELSE LET duty == queued_duties[Len(queued_duties)]
         IN  drain_into_lifo(
                 [duties |-> [acc.duties EXCEPT !.processed = Append(@, duty),
                                                !.calls = Append(@, duty)],
                  ops |-> acc.ops \o process_elder_duty(duty)],
                 SubSeq(queued_duties, 1, Len(queued_duties) - 1))

\* for duty in queued_duties.drain(..) { ops.extend(process_elder_duty(duty)) }
RECURSIVE drain_into(_, _)
drain_into(acc, queued_duties) ==
    IF queued_duties = <<>> THEN acc
    ELSE drain_into([duties |-> [acc.duties EXCEPT
                                    !.processed = Append(@, Head(queued_duties)),
                                    !.calls = Append(@, Head(queued_duties))],
                     ops |-> acc.ops \o process_elder_duty(Head(queued_duties))],
                    Tail(queued_duties))

\* Variant: the queued duties are replayed before the subsystem is initiated.
drain_then_initiate(duties, genesis, queued_duties) ==
    LET done == drain_into([duties |-> duties, ops |-> <<>>], queued_duties)
    IN  [duties |-> Initiated(done.duties, genesis),
         ops |-> done.ops \o initiate(genesis)]

\* 1. Initiate duties.  2. Process all enqueued duties.
initiate_then_drain(duties, genesis, queued_duties) ==
    drain_into([duties |-> Initiated(duties, genesis), ops |-> initiate(genesis)],
               queued_duties)

\* WalletInfo { history: ActorHistory { credits: vec![credit_proof], debits: vec![] } }
GenesisWalletInfo(credit_proof) == [credits |-> <<credit_proof>>, debits |-> <<>>]

-----------------------------------------------------------------------------
(* The handlers of NodeDuties: Stage before, inputs -> Stage after, Result *)

\* Variant: the round moves on without looking at pending_agreement.
pending_agreement_unchecked(bootstrap) == TRUE

\* if let Some(..) = bootstrap.pending_agreement
has_pending_agreement(bootstrap) == bootstrap.pending_agreement.kind # "None"

\* Variant: the two reward commands are pushed before the replayed duties.
push_reward_cmds_first(ops) == <<AddNewNode, SetNodeWallet>> \o ops

\* Steps 4 and 5 of finish_transition_to_elder: the two pushes onto ops.
push_reward_cmds(ops) == ops \o <<AddNewNode, SetNodeWallet>>

\* Variant: without the early return for a node that is already Adult.
assume_adult_duties_unguarded(s, fail) ==
    IF fail = "new" THEN Out(s, "Collaborator", <<>>)
    ELSE Out(Adult, "Ok", <<RegisterWalletDuty>>)

assume_adult_duties(s, fail) ==
    IF s.tag = "Adult" THEN Out(s, "Ok", <<>>)
    ELSE IF fail = "new" THEN Out(s, "Collaborator", <<>>)
    ELSE Out(Adult, "Ok", <<RegisterWalletDuty>>)

\* Variant: the originator branch does not look at the section prefix.
genesis_originator_any_prefix(s, is_genesis_section, elder_count, section_chain_len) ==
    /\ elder_count = GENESIS_ELDER_COUNT
    /\ s.tag = "Adult"
    /\ section_chain_len <= GenesisChainBound

\* The condition of the genesis-originator branch.
genesis_originator(s, is_genesis_section, elder_count, section_chain_len) ==
    /\ is_genesis_section
    /\ elder_count = GENESIS_ELDER_COUNT
    /\ s.tag = "Adult"
    /\ section_chain_len <= GenesisChainBound

\* Variant: the participant branch does not look at the section prefix.
genesis_participant_any_prefix(is_genesis_section, elder_count, section_chain_len) ==
    /\ elder_count < GENESIS_ELDER_COUNT
    /\ section_chain_len <= GenesisChainBound

\* Variant: the participant branch is taken one elder too early only.
genesis_participant_off_by_one(is_genesis_section, elder_count, section_chain_len) ==
    /\ is_genesis_section
    /\ elder_count < GENESIS_ELDER_COUNT - 1
    /\ section_chain_len <= GenesisChainBound

\* The condition of the genesis-participant branch.
genesis_participant(is_genesis_section, elder_count, section_chain_len) ==
    /\ is_genesis_section
    /\ elder_count < GENESIS_ELDER_COUNT
    /\ section_chain_len <= GenesisChainBound

\* Variant: an Infant is let through whether flagged genesis or not.
infant_not_genesis_unchecked(s, genesis_node) == FALSE

\* !self.node_info.genesis && matches!(self.stage, Stage::Infant)
infant_not_genesis(s, genesis_node) == ~genesis_node /\ s.tag = "Infant"

\* Variant: the originator's own share is signed and sent but not recorded.
originator_signatures_empty(credit_sig_share) == NoSignatures

\* The originator's mapping: its own share.
originator_signatures(credit_sig_share) == insert(NoSignatures, credit_sig_share)

begin_transition_to_elder(s, n, genesis_node, is_genesis_section, elder_count, section_chain_len, fail) ==
    IF s.tag \in {"Elder", "AssumingElderDuties", "AwaitingGenesisThreshold"}
    THEN Out(s, "Ok", <<>>)
    ELSE IF infant_not_genesis(s, genesis_node)
    THEN Out(s, "InvalidOperation", <<>>)
    ELSE IF fail = "new"
    THEN Out(s, "Collaborator", <<>>)
    ELSE IF genesis_originator(s, is_genesis_section, elder_count, section_chain_len)
    THEN IF fail = "sign"
         THEN Out(s, "Collaborator", <<>>)
         ELSE LET credit == Credit(0, SectionKey)
                  credit_sig_share == sign_as_elder(n, credit)
              IN  Out(ProposingGenesis(credit, originator_signatures(credit_sig_share),
                                       NoArt, <<>>),
                      "Ok", <<SendProposeGenesis(credit.recipient, credit,
                                                 credit_sig_share)>>)
    ELSE IF genesis_participant(is_genesis_section, elder_count, section_chain_len)
    THEN Out(AwaitingGenesisThreshold(<<>>), "Ok", <<>>)
    ELSE Out(AssumingElderDuties(<<>>), "Ok", <<QueryWalletHistory>>)

\* Variant: only an Elder takes a proposal as already settled.
proposal_settled_elder_only(s) == s.tag = "Elder"

\* matches!(self.stage, AccumulatingGenesis(_)) || matches!(self.stage, Elder(_))
proposal_settled(s) == s.tag \in {"AccumulatingGenesis", "Elder"}

\* Variant: the sender's share is dropped, the mapping starts with the own one.
first_signatures_own_only(sig, credit_sig_share) ==
    insert(NoSignatures, credit_sig_share)

\* The mapping of a round just entered: the sender's share, then the own one.
first_signatures(sig, credit_sig_share) ==
    insert(insert(NoSignatures, sig), credit_sig_share)

receive_genesis_proposal(s, n, credit, sig, fail) ==
    IF proposal_settled(s)
    THEN Out(s, "Ok", <<>>)
    ELSE IF s.tag = "AwaitingGenesisThreshold"
    THEN IF fail = "sign"
         THEN Out(s, "Collaborator", <<>>)
         ELSE LET credit_sig_share == sign_as_elder(n, credit)
                  signatures == first_signatures(sig, credit_sig_share)
              IN  Out(ProposingGenesis(credit, signatures, NoArt, s.queued_ops),
                      "Ok", <<SendProposeGenesis(SectionKey, credit,
                                                 credit_sig_share)>>)
    ELSE IF s.tag = "ProposingGenesis"
    THEN LET bootstrap == add(s, sig)
             signed_credit == bootstrap.pending_agreement
         IN  IF has_pending_agreement(bootstrap)
             THEN IF fail = "sign"
                  THEN Out(bootstrap, "Collaborator", <<>>)
                  ELSE LET credit_sig_share == sign_as_elder(n, signed_credit)
                       IN  Out(AccumulatingGenesis(signed_credit,
                                   insert(NoSignatures, credit_sig_share),
                                   NoArt, bootstrap.queued_ops),
                               "Ok",
                               <<SendAccumulateGenesis(SectionKey, signed_credit,
                                                       credit_sig_share)>>)
             ELSE Out(bootstrap, "Ok", <<>>)
    ELSE Out(s, "InvalidOperation", <<>>)

\* Variant: only an Adult is refused; the first two genesis stages finalize.
no_seed_data_adult_only(s) == s.tag = "Adult"

\* Stage::Adult(_) | AwaitingGenesisThreshold(_) | ProposingGenesis(_) => Err(..)
no_seed_data(s) ==
    s.tag \in {"Adult", "AwaitingGenesisThreshold", "ProposingGenesis"}

finish_transition_to_elder(s, genesis_node, wallet_info, genesis, fail) ==
    IF s.tag = "Elder" THEN Out(s, "Ok", <<>>)
    ELSE IF s.tag = "Infant" /\ ~genesis_node THEN Out(s, "InvalidOperation", <<>>)
    ELSE IF no_seed_data(s)
    THEN Out(s, "InvalidOperation", <<>>)
    ELSE LET queued_duties == IF s.tag = "Infant" THEN <<>> ELSE s.queued_ops
         IN  IF fail \in {"new", "initiate"}
             THEN Out(s, "Collaborator", <<>>)
             ELSE IF fail = "duty" /\ queued_duties # <<>>
             THEN \* the drain in progress is dropped: the queue is left empty
                  Out([s EXCEPT !.queued_ops = <<>>], "Collaborator", <<>>)
             ELSE LET done == initiate_then_drain(ElderDutiesNew(wallet_info),
                                                  genesis, queued_duties)
                  IN  Out(Elder(done.duties), "Ok", push_reward_cmds(done.ops))

\* Variant: the wallet-history response is finalized as a genesis event.
init_section_wallet_as_genesis(s, genesis_node, wallet_info, fail) ==
    finish_transition_to_elder(s, genesis_node, wallet_info,
        CreditProof(SignedCredit(GenesisCredit, "valid"), "valid"), fail)

\* InitSectionWallet(wallet_info) => finish_transition_to_elder(wallet_info, None)
init_section_wallet(s, genesis_node, wallet_info, fail) ==
    finish_transition_to_elder(s, genesis_node, wallet_info, NoArt, fail)

receive_genesis_accumulation(s, n, genesis_node, signed_credit, sig, fail) ==
    IF s.tag = "Elder" THEN Out(s, "Ok", <<>>)
    ELSE IF s.tag = "ProposingGenesis"
    THEN IF fail = "sign"
         THEN Out(s, "Collaborator", <<>>)
         ELSE LET credit_sig_share == sign_as_elder(n, signed_credit)
                  signatures == insert(insert(NoSignatures, sig), credit_sig_share)
              IN  Out(AccumulatingGenesis(signed_credit, signatures, NoArt,
                                          s.queued_ops),
                      "Ok", <<>>)
    ELSE IF s.tag = "AccumulatingGenesis"
    THEN LET bootstrap == add(s, sig)
             genesis == bootstrap.pending_agreement
             taken == [bootstrap EXCEPT !.pending_agreement = NoArt]
         IN  IF has_pending_agreement(bootstrap)
             THEN IF fail = "sign"
                  THEN Out(taken, "Collaborator", <<>>)
                  ELSE finish_transition_to_elder(
                           [taken EXCEPT !.signatures =
                                insert(@, sign_as_elder(n, genesis))],
                           genesis_node, GenesisWalletInfo(genesis), genesis, fail)
             ELSE Out(bootstrap, "Ok", <<>>)
    ELSE Out(s, "InvalidOperation", <<>>)

\* Variant: push_front instead of push_back.
try_enqueue_at_front(s, duty) ==
    IF s.tag \in TransitionalTags
    THEN [enqueued |-> TRUE, stage |-> [s EXCEPT !.queued_ops = <<duty>> \o @]]
    ELSE [enqueued |-> FALSE, stage |-> s]

\* Variant: an Adult queues too.
try_enqueue_as_adult_too(s, duty) ==
    IF s.tag \in TransitionalTags \cup {"Adult"}
    THEN [enqueued |-> TRUE, stage |-> [s EXCEPT !.queued_ops = Append(@, duty)]]
    ELSE [enqueued |-> FALSE, stage |-> s]

try_enqueue_elder_duty(s, duty) ==
    IF s.tag \in TransitionalTags
    THEN [enqueued |-> TRUE, stage |-> [s EXCEPT !.queued_ops = Append(@, duty)]]
    ELSE [enqueued |-> FALSE, stage |-> s]

\* NodeDuties::process, RunAsElder arm.
process_run_as_elder(s, duty, fail) ==
    IF s.tag = "Elder"
    THEN IF fail = "duty"
         THEN Out(s, "Collaborator", <<>>)
         ELSE Out([s EXCEPT !.duties.processed = Append(@, duty),
                            !.duties.calls = Append(@, duty)], "Ok",
                  process_elder_duty(duty))
    ELSE LET q == try_enqueue_elder_duty(s, duty)
         IN  IF q.enqueued THEN Out(q.stage, "Ok", <<>>)
             ELSE Out(s, "Logic", <<>>)

\* Variant: node_state() is not consulted.
register_wallet_any_stage(s) == Out(s, "Ok", <<SendRegisterWallet>>)

register_wallet(s) ==
    IF s.tag \in {"Elder", "Adult"}
    THEN Out(s, "Ok", <<SendRegisterWallet>>)
    ELSE Out(s, "InvalidOperation", <<>>)

\* Variant: a node still assuming elder duties forwards too.
initiate_elder_change_when_assuming(s) ==
    IF s.tag \in {"Elder", "AssumingElderDuties"}
    THEN Out(s, "Ok", <<ElderChangeOp("InitiateElderChange")>>)
    ELSE Out(s, "Ok", <<>>)

initiate_elder_change(s) ==
    IF s.tag = "Elder" THEN Out(s, "Ok", <<ElderChangeOp("InitiateElderChange")>>)
    ELSE Out(s, "Ok", <<>>)

finish_elder_change(s) ==
    IF s.tag = "Elder" THEN Out(s, "Ok", <<ElderChangeOp("FinishElderChange")>>)
    ELSE Out(s, "Ok", <<>>)

-----------------------------------------------------------------------------
(* State.                                                                  *)

\* ---------------------------------------------------------------------------
\* The rate limit's share of the supply (capacity/rate_limit.rs).  A u64 is
\* three limbs in base 10^9, least significant first, as MAX_SUPPLY is; an f64
\* is an integer mantissa times a power of two.
\* ---------------------------------------------------------------------------

MaxPrefixLen == 63

Zero == <<0, 0, 0>>

One == <<1, 0, 0>>

IsEven(x) == x[1] % 2 = 0

Less(x, y) ==
    \/ x[3] < y[3]
    \/ x[3] = y[3] /\ x[2] < y[2]
    \/ x[3] = y[3] /\ x[2] = y[2] /\ x[1] < y[1]

\* floor(x / 2)
Half(x) ==
    LET v2 == (x[3] % 2) * 1000000000 + x[2]
        v1 == (v2 % 2) * 1000000000 + x[1]
    IN  <<v1 \div 2, v2 \div 2, x[3] \div 2>>

Double(x) ==
    LET d1 == 2 * x[1]
        d2 == 2 * x[2] + d1 \div 1000000000
        d3 == 2 * x[3] + d2 \div 1000000000
    IN  <<d1 % 1000000000, d2 % 1000000000, d3>>

Inc(x) ==
    LET s1 == x[1] + 1
        s2 == x[2] + s1 \div 1000000000
        s3 == x[3] + s2 \div 1000000000
    IN  <<s1 % 1000000000, s2 % 1000000000, s3>>

RECURSIVE HalfTimes(_, _)
HalfTimes(x, n) == IF n = 0 \/ x = Zero THEN x ELSE HalfTimes(Half(x), n - 1)

RECURSIVE DoubleTimes(_, _)
DoubleTimes(x, n) == IF n = 0 \/ x = Zero THEN x ELSE DoubleTimes(Double(x), n - 1)

TwoPow(n) == DoubleTimes(One, n)

\* An integer to the nearest float of the given mantissa width, ties to even:
\* the bits shifted out are remembered as the last one (round) and whether any
\* earlier one was set (sticky).
RECURSIVE round_to(_, _, _, _, _)
round_to(m, e, round, sticky, bits) ==
    IF Less(m, TwoPow(bits))
    THEN [mant |-> IF round /\ (sticky \/ ~IsEven(m)) THEN Inc(m) ELSE m,
          exp |-> e]
    ELSE round_to(Half(m), e + 1, ~IsEven(m), sticky \/ round, bits)

\* Variant: the conversion goes through a 24-bit mantissa (as f32).
as_f32(v) == round_to(v, 0, FALSE, FALSE, 24)

\* `as f64`: a 53-bit mantissa.
as_f64(v) == round_to(v, 0, FALSE, FALSE, 53)

\* 2_f64.powf(prefix_len as f64): a power of two, exact.
powf2(prefix_len) == [mant |-> One, exp |-> prefix_len]

\* f64 division by a power of two: the exponent moves, the mantissa stays
\* (no underflow for the prefix lengths of the model).
div_pow2(a, b) == [mant |-> a.mant, exp |-> a.exp - b.exp]

\* .floor() as u64 (the values of the model stay below 2^64, so the cast does
\* not saturate).
floor_as_u64(f) ==
    IF f.exp >= 0 THEN DoubleTimes(f.mant, f.exp) ELSE HalfTimes(f.mant, -f.exp)

max_section_nanos(len) ==
    floor_as_u64(div_pow2(as_f64(MAX_SUPPLY), powf2(len)))

NoNanos == [for |-> -1, nanos |-> Zero]

\* ---------------------------------------------------------------------------
\* The key section's WalletSection (elder_duties/key_section/mod.rs)
\* ---------------------------------------------------------------------------

MaxFullNodes == 11

ElderState(key_index) == [key_index |-> key_index]

\* RateLimit::new: the elder state and the capacity's count of full nodes.
RateLimitNew(elder_state, full_nodes) ==
    [elder_state |-> elder_state, full_nodes |-> full_nodes]

NoRateLimit == RateLimitNew(ElderState(0), 0)

transfer_replicas(elder_state) ==
    [key_index |-> elder_state.key_index, initiating |-> TRUE]

NoTransfers ==
    [replicas |-> [key_index |-> 0, initiating |-> FALSE],
     rate_limit |-> NoRateLimit]

\* The two variants of enum WalletSection, and "None" where there is no
\* instance (not constructed yet, or moved into a call that did not return it).
WalletSection(variant, transfers, elder_state) ==
    [variant |-> variant, transfers |-> transfers, elder_state |-> elder_state]

NoInstance == WalletSection("None", NoTransfers, ElderState(0))

pre_elder(rate_limit, elder_state) ==
    LET replicas == transfer_replicas(elder_state)
        transfers == [replicas |-> replicas, rate_limit |-> rate_limit]
    IN  WalletSection("PreElder", transfers, elder_state)

\* Variant: enable succeeds on an instance that is already Elder.
enable_again(self) ==
    [result |-> "Ok",
     value |-> WalletSection("Elder", self.transfers, self.elder_state)]

\* enable takes self by value: on Err the instance is gone.
enable(self) ==
    IF self.variant = "PreElder"
    THEN [result |-> "Ok",
          value |-> WalletSection("Elder", self.transfers, self.elder_state)]
    ELSE [result |-> "InvalidOperation", value |-> NoInstance]


VARIABLES
    stage,          \* NodeDuties.stage of every node
    node_info,      \* NodeInfo of every node (the genesis flag)
    last,           \* the last call: node, event, Result and returned operations
    elders,         \* number of elders of the section (network state)
    to_assume,      \* nodes whose AssumeElderDuties event is not yet handled
    msgs,           \* section broadcasts in flight: one entry per recipient
    proposed,       \* ProposeGenesis broadcasts the node has returned so far
    wallet_section, \* a WalletSection instance and the last call made on it
    prefix_len,     \* bit count of the section prefix of a RateLimit
    section_nanos   \* the last value max_section_nanos returned, and for
                    \* which prefix length

vars == <<stage, node_info, last, elders, to_assume, msgs, proposed,
          wallet_section, prefix_len, section_nanos>>

\* The state outside NodeDuties: the node's broadcast count, the key section's
\* WalletSection and the rate limit.
NoWalletSection == [instance |-> NoInstance, call |-> "", result |-> "Ok",
                    calls |-> 0]

AsideInit ==
    /\ proposed = 0
    /\ wallet_section = NoWalletSection
    /\ prefix_len = 0
    /\ section_nanos = NoNanos

Aside == UNCHANGED <<proposed, wallet_section, prefix_len, section_nanos>>

NoCall == [node |-> 0, event |-> "", result |-> "Ok", ops |-> <<>>]

Call(n, event, out) ==
    /\ stage' = [stage EXCEPT ![n] = out.stage]
    /\ last' = [node |-> n, event |-> event, result |-> out.result, ops |-> out.ops]

\* Inputs of the one-node specification.
Credits == {GenesisCredit, ForeignCredit}

\* Signer indices of incoming shares: enough for T+1 distinct ones and a spare.
SignerInputs == 1..(Threshold + 2)

ElderCounts == (GENESIS_ELDER_COUNT - 1)..MaxElderCount

ChainLens == GenesisChainBound..MaxChainLen

Range(seq) == {seq[i] : i \in 1..Len(seq)}

WalletInfos == {EmptyWallet,
                GenesisWalletInfo(CreditProof(SignedCredit(GenesisCredit, "valid"),
                                              "valid"))}

-----------------------------------------------------------------------------
(* One node, any event, any input.                                         *)

Init ==
    /\ stage = [n \in Nodes |-> Infant]
    /\ node_info \in [Nodes -> [genesis : BOOLEAN]]
    /\ \A n \in Nodes \ {Self} : ~node_info[n].genesis
    /\ last = NoCall
    /\ elders = 0
    /\ to_assume = {}
    /\ msgs = {}
    /\ AsideInit

Network == UNCHANGED <<node_info, elders, to_assume, msgs>> /\ Aside

AssumeAdultDuties ==
    /\ \E fail \in {"none", "new"} :
          Call(Self, "AssumeAdultDuties", assume_adult_duties(stage[Self], fail))
    /\ Network

\* first_section: what our_prefix().is_empty() may return to this node.
AssumeElderDuties(first_section) ==
    /\ \E is_genesis_section \in first_section, elder_count \in ElderCounts,
          section_chain_len \in ChainLens, fail \in {"none", "new", "sign"} :
          Call(Self, "AssumeElderDuties",
               begin_transition_to_elder(stage[Self], Self, node_info[Self].genesis,
                                         is_genesis_section, elder_count,
                                         section_chain_len, fail))
    /\ Network

ReceiveGenesisProposal(credits, signers) ==
    /\ \E credit \in credits, index \in signers, fail \in {"none", "sign"} :
          Call(Self, "ReceiveGenesisProposal",
               receive_genesis_proposal(stage[Self], Self, credit,
                                        SignatureShare(index, credit), fail))
    /\ Network

ReceiveGenesisAccumulation(credits, signers) ==
    /\ \E credit \in credits, index \in signers, fail \in FailPoints :
          LET signed_credit == SignedCredit(credit, "valid")
          IN  Call(Self, "ReceiveGenesisAccumulation",
                   receive_genesis_accumulation(stage[Self], Self,
                       node_info[Self].genesis, signed_credit,
                       SignatureShare(index, signed_credit), fail))
    /\ Network

InitSectionWallet ==
    /\ \E wallet_info \in WalletInfos, fail \in FailPoints \ {"sign"} :
          Call(Self, "InitSectionWallet",
               init_section_wallet(stage[Self], node_info[Self].genesis,
                                   wallet_info, fail))
    /\ Network

\* A duty is one operation: it is submitted once.
RunAsElder(duties) ==
    /\ Len(stage[Self].queued_ops) < MaxQueue
    /\ Len(stage[Self].duties.processed) < MaxQueue
    /\ \E duty \in duties \ (Range(stage[Self].queued_ops)
                              \cup Range(stage[Self].duties.processed)),
          fail \in {"none", "duty"} :
          Call(Self, "RunAsElder", process_run_as_elder(stage[Self], duty, fail))
    /\ Network

RegisterWallet ==
    /\ Call(Self, "RegisterWallet", register_wallet(stage[Self]))
    /\ Network

InitiateElderChange ==
    /\ Call(Self, "InitiateElderChange", initiate_elder_change(stage[Self]))
    /\ Network

FinishElderChange ==
    /\ Call(Self, "FinishElderChange", finish_elder_change(stage[Self]))
    /\ Network

\* Every event, shares over the genesis credit and over a foreign one.
Next ==
    \/ AssumeAdultDuties
    \/ AssumeElderDuties(BOOLEAN)
    \/ ReceiveGenesisProposal(Credits, SignerInputs)
    \/ ReceiveGenesisAccumulation(Credits, SignerInputs)
    \/ InitSectionWallet
    \/ RunAsElder({"d1"})
    \/ RegisterWallet
    \/ InitiateElderChange
    \/ FinishElderChange

Spec == Init /\ [][Next]_vars

\* Every event, every duty, shares over the genesis credit only.
NextReplay ==
    \/ AssumeAdultDuties
    \/ AssumeElderDuties(BOOLEAN)
    \/ ReceiveGenesisProposal({GenesisCredit}, SignerInputs)
    \/ ReceiveGenesisAccumulation({GenesisCredit}, SignerInputs)
    \/ InitSectionWallet
    \/ RunAsElder(Duties)
    \/ RegisterWallet
    \/ InitiateElderChange
    \/ FinishElderChange

Replay == Init /\ [][NextReplay]_vars

\* A node of a section other than the first: the prefix of its section is
\* not empty, and no later prefix of that section is (prefixes only grow).
NextLaterSection ==
    \/ AssumeAdultDuties
    \/ AssumeElderDuties({FALSE})
    \/ ReceiveGenesisProposal(Credits, SignerInputs)
    \/ ReceiveGenesisAccumulation(Credits, SignerInputs)
    \/ InitSectionWallet
    \/ RunAsElder(Duties)
    \/ RegisterWallet
    \/ InitiateElderChange
    \/ FinishElderChange

LaterSection == Init /\ [][NextLaterSection]_vars

\* A node of the first section through the two genesis rounds: shares of
\* every signer of the group over the genesis credit.
NextRounds ==
    \/ AssumeAdultDuties
    \/ AssumeElderDuties({TRUE})
    \/ ReceiveGenesisProposal({GenesisCredit}, Nodes)
    \/ ReceiveGenesisAccumulation({GenesisCredit}, Nodes)
    \/ InitSectionWallet
    \/ RunAsElder({"d1", "d2"})
    \/ RegisterWallet
    \/ InitiateElderChange
    \/ FinishElderChange

Rounds == Init /\ [][NextRounds]_vars

-----------------------------------------------------------------------------
(* The genesis run: the five nodes of the first section.  Node 1 starts    *)
(* the network; the others join as adults; routing promotes them one by    *)
(* one and each handles its AssumeElderDuties event when it gets to it,    *)
(* reading the elder count and chain length the section has by then.       *)
(* The run follows a network that loses nothing: a copy that reaches a     *)
(* node before the node can take it (the handler would answer with an      *)
(* error) is delivered again later, so it stays in flight.                 *)

RunInit ==
    /\ stage = [n \in Nodes |-> Infant]
    /\ node_info = [n \in Nodes |-> [genesis |-> (n = 1)]]
    /\ last = NoCall
    /\ elders = 0
    /\ to_assume = {}
    /\ msgs = {}
    /\ AsideInit

\* DstLocation::Section: one copy for every other elder of the section (the
\* sender's own share is already in its mapping: its own copy changes nothing).
Broadcast(n, ops) ==
    {[to |-> e, msg |-> ops[i].msg, payload |-> ops[i].payload, sig |-> ops[i].sig] :
        e \in (1..elders) \ {n},
        i \in {j \in 1..Len(ops) : /\ ops[j].op = "Send"
                                   /\ ops[j].msg \in {"ProposeGenesis",
                                                      "AccumulateGenesis"}}}

\* A copy its recipient returns Ok(vec![]) for without looking at it, now and
\* in every later stage of the run: it is taken as delivered.
Absorbed(st, m) ==
    \/ st[m.to].tag = "Elder"
    \/ st[m.to].tag = "AccumulatingGenesis" /\ m.msg = "ProposeGenesis"

InFlight(st, ms) == {m \in ms : ~Absorbed(st, m)}

\* The handler's effect on the node; the run does not keep the returned Result.
Handle(n, out) ==
    /\ stage' = [stage EXCEPT ![n] = out.stage]
    /\ UNCHANGED last

\* Nodes join in the order in which routing promotes them.
JoinAsAdult ==
    /\ elders >= 1
    /\ elders < GENESIS_ELDER_COUNT
    /\ stage[elders + 1].tag = "Infant"
    /\ Handle(elders + 1, assume_adult_duties(stage[elders + 1], "none"))
    /\ UNCHANGED <<node_info, elders, to_assume, msgs>>
    /\ Aside

\* Routing promotes the next node while at most MaxLag promoted nodes have
\* not yet handled their AssumeElderDuties event.
Promote ==
    /\ elders < GENESIS_ELDER_COUNT
    /\ Cardinality(to_assume) <= MaxLag
    /\ elders + 1 = 1 \/ stage[elders + 1].tag = "Adult"
    /\ elders' = elders + 1
    /\ to_assume' = to_assume \cup {elders + 1}
    /\ UNCHANGED <<stage, node_info, last, msgs>>
    /\ Aside

HandleAssumeElderDuties ==
    /\ \E n \in to_assume :
          LET out == begin_transition_to_elder(stage[n], n, node_info[n].genesis,
                                               TRUE, elders, elders, "none")
          IN  /\ Handle(n, out)
              /\ to_assume' = to_assume \ {n}
              /\ msgs' = InFlight(stage', msgs \cup Broadcast(n, out.ops))
    /\ UNCHANGED <<node_info, elders>>
    /\ Aside

Deliver ==
    /\ \E m \in msgs :
          LET n == m.to
              out == IF m.msg = "ProposeGenesis"
                     THEN receive_genesis_proposal(stage[n], n, m.payload, m.sig,
                                                   "none")
                     ELSE receive_genesis_accumulation(stage[n], n,
                              node_info[n].genesis, m.payload, m.sig, "none")
          IN  /\ out.result = "Ok"
              /\ Handle(n, out)
              /\ msgs' = InFlight(stage', (msgs \ {m}) \cup Broadcast(n, out.ops))
    /\ UNCHANGED <<node_info, elders, to_assume>>
    /\ Aside

RunNext ==
    \/ JoinAsAdult
    \/ Promote
    \/ HandleAssumeElderDuties
    \/ Deliver

GenesisRun == RunInit /\ [][RunNext]_vars

\* ---------------------------------------------------------------------------
\* Lifetime: one first-section node with its ProposeGenesis broadcasts counted.
\* It runs until the node has returned MaxProposals of them.
\* ---------------------------------------------------------------------------

MaxProposals == 2

\* The ProposeGenesis messages among the operations a handler returns
\* (mod.rs:336-340 for the originator, mod.rs:400-404 for a participant).
ProposeGenesisSent(ops) ==
    Cardinality({i \in 1..Len(ops) : /\ ops[i].op = "Send"
                                     /\ ops[i].msg = "ProposeGenesis"})

Counted(event, out) ==
    /\ Call(Self, event, out)
    /\ proposed' = proposed + ProposeGenesisSent(out.ops)
    /\ UNCHANGED <<node_info, elders, to_assume, msgs, wallet_section,
                   prefix_len, section_nanos>>

CountedAssumeAdultDuties ==
    /\ proposed < MaxProposals
    /\ Counted("AssumeAdultDuties", assume_adult_duties(stage[Self], "none"))

CountedAssumeElderDuties ==
    /\ proposed < MaxProposals
    /\ \E elder_count \in ElderCounts, section_chain_len \in ChainLens,
       fail \in {"none", "sign"} :
       Counted("AssumeElderDuties",
               begin_transition_to_elder(stage[Self], Self,
                                         node_info[Self].genesis, TRUE,
                                         elder_count, section_chain_len, fail))

CountedReceiveGenesisProposal ==
    /\ proposed < MaxProposals
    /\ \E index \in Nodes, fail \in {"none", "sign"} :
       Counted("ReceiveGenesisProposal",
               receive_genesis_proposal(stage[Self], Self, GenesisCredit,
                                        SignatureShare(index, GenesisCredit),
                                        fail))

CountedReceiveGenesisAccumulation ==
    /\ proposed < MaxProposals
    /\ \E index \in Nodes, fail \in FailPoints :
       LET signed_credit == SignedCredit(GenesisCredit, "valid")
       IN  Counted("ReceiveGenesisAccumulation",
                   receive_genesis_accumulation(stage[Self], Self,
                       node_info[Self].genesis, signed_credit,
                       SignatureShare(index, signed_credit), fail))

NextLifetime ==
    \/ CountedAssumeAdultDuties
    \/ CountedAssumeElderDuties
    \/ CountedReceiveGenesisProposal
    \/ CountedReceiveGenesisAccumulation

Lifetime == Init /\ [][NextLifetime]_vars

\* ---------------------------------------------------------------------------
\* KeySection: one WalletSection, constructed with pre_elder and then enabled,
\* for at most MaxCalls calls.
\* ---------------------------------------------------------------------------

MaxCalls == 3

ElderStates == {ElderState(i) : i \in Nodes}

RateLimits == {RateLimitNew(e, f) : e \in ElderStates, f \in 0..MaxFullNodes}

NodeAside == UNCHANGED <<stage, node_info, last, elders, to_assume, msgs,
                         proposed, prefix_len, section_nanos>>

PreElder ==
    /\ wallet_section.calls < MaxCalls
    /\ wallet_section.instance.variant = "None"
    /\ \E rate_limit \in RateLimits :
          wallet_section' = [instance |-> pre_elder(rate_limit,
                                                   rate_limit.elder_state),
                             call |-> "pre_elder", result |-> "Ok",
                             calls |-> wallet_section.calls + 1]
    /\ NodeAside

Enable ==
    /\ wallet_section.calls < MaxCalls
    /\ wallet_section.instance.variant # "None"
    /\ LET res == enable(wallet_section.instance)
       IN  wallet_section' = [instance |-> res.value, call |-> "enable",
                              result |-> res.result,
                              calls |-> wallet_section.calls + 1]
    /\ NodeAside

NextKeySection ==
    \/ PreElder
    \/ Enable

KeySection == Init /\ [][NextKeySection]_vars

\* ---------------------------------------------------------------------------
\* Capacity: the section's prefix grows by one bit with every split, and the
\* rate limit asks for the section's share of the supply.
\* ---------------------------------------------------------------------------

RateAside == UNCHANGED <<stage, node_info, last, elders, to_assume, msgs,
                         proposed, wallet_section>>

Split ==
    /\ prefix_len < MaxPrefixLen
    /\ prefix_len' = prefix_len + 1
    /\ UNCHANGED section_nanos
    /\ RateAside

MaxSectionNanos ==
    /\ section_nanos.for # prefix_len
    /\ section_nanos' = [for |-> prefix_len,
                         nanos |-> max_section_nanos(prefix_len)]
    /\ UNCHANGED prefix_len
    /\ RateAside

NextCapacity ==
    \/ Split
    \/ MaxSectionNanos

Capacity == Init /\ [][NextCapacity]_vars

-----------------------------------------------------------------------------
(* Properties.                                                             *)

IsPrefix(a, b) == Len(a) <= Len(b) /\ SubSeq(b, 1, Len(a)) = a

Count(signatures) == Cardinality(Signers(signatures))

\* Everything the run sends has been sent and has arrived.
Quiescent == elders = GENESIS_ELDER_COUNT /\ to_assume = {} /\ msgs = {}

\* C1: when the genesis run has delivered every message, every elder has
\* handed the ledger exactly one GenesisEvent, the same one on all five.
C1_SameProofOnceOnEveryElder ==
    Quiescent =>
        \A n \in Nodes :
            /\ Len(stage[n].duties.genesis) = 1
            /\ \A m \in Nodes : stage[m].duties.genesis = stage[n].duties.genesis

\* C2: when every broadcast of the genesis run has been delivered, no elder
\* is left in AwaitingThreshold, Proposing or Accumulating: all are Elder.
C2_AllElderOnceDelivered ==
    Quiescent => \A n \in Nodes : stage[n].tag = "Elder"

\* C3: every share in a round's mapping is a share over the credit of that
\* round (same credit id): a share that came with another credit is not there.
C3_SharesReferenceRoundCredit ==
    stage[Self].tag \in {"ProposingGenesis", "AccumulatingGenesis"} =>
        \A i \in Signers(stage[Self].signatures) :
            stage[Self].signatures[i].id = stage[Self].artifact.id

\* C4: a node takes the originator branch (Adult to Proposing, constructing
\* the Credit) only when no other node of the run holds a credit yet, so at
\* most one node of a run ever takes it.
C4_SingleOriginator ==
    [][\A n \in Nodes :
          (stage[n].tag = "Adult" /\ stage'[n].tag = "ProposingGenesis")
          => \A m \in Nodes \ {n} :
                stage[m].tag \notin {"ProposingGenesis", "AccumulatingGenesis",
                                     "Elder"}]_vars

\* C5: threshold exactness.  No aggregate exists below T+1 distinct shares; a
\* share that leaves the round at T or fewer distinct signers leaves it without
\* aggregate, and a duplicate leaves the count as it was; the share that makes
\* T+1 distinct signers produces the aggregate in that same call (SignedCredit
\* and round 2 for a proposal, CreditProof handed to the ledger for an
\* accumulation).
C5_InRound(s, t, signers_after) ==
    /\ t.tag = s.tag
    /\ t.artifact = s.artifact
    /\ t.pending_agreement = NoArt
    /\ Signers(t.signatures) = signers_after

\* No aggregate below T+1 distinct shares, and none missing in round 1 above T.
C5_AggregateIffThreshold(s) ==
    /\ s.pending_agreement # NoArt => Count(s.signatures) >= Threshold + 1
    /\ (s.tag = "ProposingGenesis" /\ s.pending_agreement = NoArt)
       => Count(s.signatures) <= Threshold

C5_ThresholdExactness ==
    [][LET s == stage[Self]
           t == stage'[Self]
       IN  /\ C5_AggregateIffThreshold(t)
           /\ \A credit \in Credits, index \in SignerInputs :
                LET share == SignatureShare(index, credit)
                    signed == SignedCredit(credit, "valid")
                    share2 == SignatureShare(index, signed)
                    after == Signers(s.signatures) \cup {index}
                IN  /\ ( /\ last'.event = "ReceiveGenesisProposal"
                         /\ s.tag = "ProposingGenesis"
                         /\ s.pending_agreement = NoArt
                         /\ Call(Self, "ReceiveGenesisProposal",
                                 receive_genesis_proposal(s, Self, credit, share,
                                                          "none")) )
                       => IF Cardinality(after) <= Threshold
                          THEN C5_InRound(s, t, after)
                          ELSE /\ t.tag = "AccumulatingGenesis"
                               /\ t.artifact.kind = "SignedCredit"
                               /\ t.artifact.id = s.artifact.id
                    /\ ( /\ last'.event = "ReceiveGenesisAccumulation"
                         /\ s.tag = "AccumulatingGenesis"
                         /\ Call(Self, "ReceiveGenesisAccumulation",
                                 receive_genesis_accumulation(s, Self,
                                     node_info[Self].genesis, signed, share2,
                                     "none")) )
                       => IF Cardinality(after) <= Threshold
                          THEN C5_InRound(s, t, after)
                          ELSE /\ t.tag = "Elder"
                               /\ Len(t.duties.genesis) = 1
                               /\ t.duties.genesis[1].kind = "CreditProof"
                               /\ t.duties.genesis[1].id = s.artifact.id]_vars

\* The share that made T+1 has just arrived: round 1 is over, round 2 begun.
C5_Witness ==
    /\ last.event = "ReceiveGenesisProposal"
    /\ stage[Self].tag = "AccumulatingGenesis"
    /\ stage[Self].artifact = SignedCredit(GenesisCredit, "valid")
    /\ Len(last.ops) = 1

\* Operations of replayed or directly run duties.
DutyOps(queue) == [i \in 1..Len(queue) |-> ElderOp(queue[i])]

\* C6: replay order.  In every successful call: a queued duty goes to the tail
\* of the queue; the queue is carried unchanged from AwaitingThreshold into
\* Proposing and from Proposing into Accumulating; and finalization feeds the
\* subsystem exactly the queue, first to last, and returns what the
\* subsystem's initiation returned, then the operations of the replayed duties
\* in that order, and after them add-node and set-wallet.
C6_ReplayInOrder ==
    [][LET s == stage[Self]
           t == stage'[Self]
       IN  last'.result = "Ok" =>
           /\ (last'.event = "RunAsElder" /\ s.tag \in TransitionalTags)
              => /\ Len(t.queued_ops) = Len(s.queued_ops) + 1
                 /\ IsPrefix(s.queued_ops, t.queued_ops)
           /\ ( \/ s.tag = "AwaitingGenesisThreshold" /\ t.tag = "ProposingGenesis"
                \/ s.tag = "ProposingGenesis" /\ t.tag = "AccumulatingGenesis" )
              => t.queued_ops = s.queued_ops
           /\ (s.tag \in TransitionalTags /\ t.tag = "Elder")
              => /\ t.duties.processed = s.queued_ops
                 /\ \E initiated \in {<<>>, <<CatchupOp>>} :
                       last'.ops = initiated \o DutyOps(s.queued_ops)
                                       \o <<AddNewNode, SetNodeWallet>>]_vars

\* Three duties were queued, the node went through the genesis rounds and the
\* last accumulation finalized it.
C6_Witness ==
    /\ last.event = "ReceiveGenesisAccumulation"
    /\ stage[Self].tag = "Elder"
    /\ Len(stage[Self].duties.genesis) = 1
    /\ stage[Self].duties.processed = <<"d1", "d2", "d3">>
    /\ last.ops = DutyOps(<<"d1", "d2", "d3">>) \o <<AddNewNode, SetNodeWallet>>

\* C7: no queued duty is lost.  In every successful call of a lifecycle event
\* (AssumeAdultDuties set aside) the duties in the queue either stay there, in
\* place, or are all fed to the subsystem by the finalization into Elder.
C7_NoQueuedDutyLost ==
    [][LET s == stage[Self]
           t == stage'[Self]
       IN  (/\ last'.result = "Ok"
            /\ last'.event # "AssumeAdultDuties"
            /\ s.queued_ops # <<>>)
           => \/ IsPrefix(s.queued_ops, t.queued_ops)
              \/ t.tag = "Elder" /\ t.duties.processed = s.queued_ops]_vars

\* C8: the two bookkeeping operations.  A call returns add-node or set-wallet
\* only when it takes the node into Elder, and then returns them once each, as
\* its last two operations, add-node before set-wallet, after the operations of
\* the replayed duties; every call that takes the node into Elder does so.
Bookkeeping(ops) == {i \in 1..Len(ops) : ops[i] \in {AddNewNode, SetNodeWallet}}

C8_BookkeepingLastAndOnce ==
    [][LET s == stage[Self]
           t == stage'[Self]
           ops == last'.ops
           k == Len(ops)
       IN  IF s.tag # "Elder" /\ t.tag = "Elder"
           THEN /\ last'.result = "Ok"
                /\ k >= 2
                /\ ops[k - 1] = AddNewNode
                /\ ops[k] = SetNodeWallet
                /\ Bookkeeping(ops) = {k - 1, k}
                /\ SubSeq(ops, k - 1 - Len(s.queued_ops), k - 2)
                       = DutyOps(s.queued_ops)
           ELSE Bookkeeping(ops) = {}]_vars

\* A finalization that replayed queued duties has returned.
C8_Witness ==
    /\ last.event = "InitSectionWallet"
    /\ stage[Self].tag = "Elder"
    /\ Len(stage[Self].duties.processed) >= 2
    /\ Len(last.ops) = 3 + Len(stage[Self].duties.processed)

\* C9: AssumeAdultDuties on an Infant that succeeds leaves the node Adult;
\* AssumeAdultDuties on an Adult returns Ok with no operations and leaves the
\* Stage as it is.
C9_AssumeAdultTwice ==
    [][last'.event = "AssumeAdultDuties" =>
          /\ (stage[Self].tag = "Infant" /\ last'.result = "Ok")
             => stage'[Self] = Adult
          /\ stage[Self].tag = "Adult"
             => /\ stage'[Self] = stage[Self]
                /\ last'.result = "Ok"
                /\ last'.ops = <<>>]_vars

\* The second application has returned: Adult, nothing to do.
C9_Witness ==
    /\ last.event = "AssumeAdultDuties"
    /\ stage[Self].tag = "Adult"
    /\ last.ops = <<>>
    /\ last.result = "Ok"

\* C10: AssumeAdultDuties delivered to a node that is Adult or beyond returns
\* no operations and leaves the Stage, round state and queue unchanged.
C10_AssumeAdultNoOpBeyondAdult ==
    [][(last'.event = "AssumeAdultDuties" /\ stage[Self].tag # "Infant")
          => /\ stage'[Self] = stage[Self]
             /\ last'.ops = <<>>]_vars

\* C11: AssumeElderDuties delivered to a node already in AwaitingThreshold,
\* Proposing, Accumulating, PromotingToElder or Elder returns Ok with no
\* operations and leaves the Stage, its shares and its queue unchanged.
C11_AssumeElderReentrancy ==
    [][(/\ last'.event = "AssumeElderDuties"
        /\ stage[Self].tag \in TransitionalTags \cup {"Elder"})
          => /\ last'.result = "Ok"
             /\ last'.ops = <<>>
             /\ stage'[Self] = stage[Self]]_vars

\* C12: a node whose snapshots report a non-empty section prefix is never in
\* Proposing or Accumulating, whatever events it is given.
C12_NoGenesisRoundsOutsideFirstSection ==
    stage[Self].tag \notin {"ProposingGenesis", "AccumulatingGenesis"}

\* The node began its promotion in a later section and was then given a
\* genesis proposal: it refused it.
C12_Witness ==
    /\ stage[Self].tag = "AssumingElderDuties"
    /\ last.event = "ReceiveGenesisProposal"
    /\ last.result = "InvalidOperation"

\* One successful handling of AssumeElderDuties with the given snapshot.
AssumeElderCall(is_genesis_section, elder_count, section_chain_len) ==
    Call(Self, "AssumeElderDuties",
         begin_transition_to_elder(stage[Self], Self, node_info[Self].genesis,
                                   is_genesis_section, elder_count,
                                   section_chain_len, "none"))

ShortChains == {len \in ChainLens : len <= GenesisChainBound}

FewElders == {count \in ElderCounts : count < GENESIS_ELDER_COUNT}

\* The stages the two guards of begin_transition_to_elder let through.
PassesGuards(s, genesis_node) ==
    \/ s.tag \in {"Adult", "ProposingGenesis", "AccumulatingGenesis"}
    \/ s.tag = "Infant" /\ genesis_node

\* The three outcomes of a call that passed the guards.
Originated(n, t, ops) ==
    /\ t.tag = "ProposingGenesis"
    /\ t.artifact.kind = "Credit"
    /\ t.artifact.amount = MAX_SUPPLY
    /\ t.artifact.recipient = SectionKey
    /\ Signers(t.signatures) = {n}
    /\ t.signatures[n] = t.artifact
    /\ t.pending_agreement = NoArt
    /\ t.queued_ops = <<>>
    /\ Len(ops) = 1
    /\ ops[1].op = "Send" /\ ops[1].msg = "ProposeGenesis"
    /\ ops[1].dst = SectionKey
    /\ ops[1].payload = t.artifact
    /\ ops[1].sig = SignatureShare(n, t.artifact)

Participating(t, ops) == t = AwaitingGenesisThreshold(<<>>) /\ ops = <<>>

OrdinaryPromotion(t, ops) ==
    /\ t = AssumingElderDuties(<<>>)
    /\ Len(ops) = 1
    /\ ops[1].op = "Send" /\ ops[1].msg = "GetSectionWalletHistory"
    /\ ops[1].dst = SectionKey

C14_GenesisOriginator ==
    [][\A len \in ShortChains :
          (stage[Self].tag = "Adult"
           /\ AssumeElderCall(TRUE, GENESIS_ELDER_COUNT, len))
          => /\ last'.result = "Ok"
             /\ Originated(Self, stage'[Self], last'.ops)]_vars

C14_Witness ==
    /\ last.event = "AssumeElderDuties"
    /\ stage[Self] = ProposingGenesis(GenesisCredit,
                         insert(NoSignatures, SignatureShare(Self, GenesisCredit)),
                         NoArt, <<>>)
    /\ last.ops = <<SendProposeGenesis(SectionKey, GenesisCredit,
                                       SignatureShare(Self, GenesisCredit))>>

C16_OrdinaryPromotionAndExclusiveBranches ==
    [][\A is_genesis_section \in BOOLEAN, count \in ElderCounts, len \in ChainLens :
          LET s == stage[Self]
              t == stage'[Self]
              ops == last'.ops
              short == len <= GenesisChainBound
              first == /\ is_genesis_section /\ count = GENESIS_ELDER_COUNT
                       /\ s.tag = "Adult" /\ short
              second == is_genesis_section /\ count < GENESIS_ELDER_COUNT /\ short
          IN  (/\ last'.event = "AssumeElderDuties"
               /\ PassesGuards(s, node_info[Self].genesis)
               /\ AssumeElderCall(is_genesis_section, count, len))
              => /\ last'.result = "Ok"
                 /\ (s.tag = "Adult" /\ ~is_genesis_section)
                    => OrdinaryPromotion(t, ops)
                 /\ Originated(Self, t, ops) <=> first
                 /\ Participating(t, ops) <=> second
                 /\ OrdinaryPromotion(t, ops) <=> (~first /\ ~second)]_vars

C16_Witness ==
    /\ last.event = "AssumeElderDuties"
    /\ ~node_info[Self].genesis
    /\ stage[Self] = AssumingElderDuties(<<>>)
    /\ last.ops = <<QueryWalletHistory>>

\* C17: an Infant that is not the designated genesis node and is given
\* AssumeElderDuties gets an invalid-operation error, no operations, and
\* remains Infant.
C17_InfantNotGenesisRejected ==
    [][(/\ last'.event = "AssumeElderDuties"
        /\ stage[Self].tag = "Infant"
        /\ ~node_info[Self].genesis)
          => /\ last'.result = "InvalidOperation"
             /\ last'.ops = <<>>
             /\ stage'[Self] = Infant]_vars

C17_Witness ==
    /\ last.event = "AssumeElderDuties"
    /\ last.result = "InvalidOperation"
    /\ stage[Self] = Infant
    /\ ~node_info[Self].genesis

\* One submission of a section-leader duty.
RunAsElderCall(duty, fail) ==
    Call(Self, "RunAsElder", process_run_as_elder(stage[Self], duty, fail))

\* C18: a section-leader duty submitted in AwaitingThreshold, Proposing,
\* Accumulating or PromotingToElder goes to the tail of the stage's queue and
\* is not executed; the call returns Ok with no operations; nothing else of
\* the Stage changes.
C18_DutyQueuedInTransitionalStage ==
    [][\A duty \in Duties, fail \in {"none", "duty"} :
          (/\ last'.event = "RunAsElder"
           /\ stage[Self].tag \in TransitionalTags
           /\ RunAsElderCall(duty, fail))
          => /\ last'.result = "Ok"
             /\ last'.ops = <<>>
             /\ stage'[Self].queued_ops = Append(stage[Self].queued_ops, duty)
             /\ stage'[Self].duties = stage[Self].duties
             /\ [stage'[Self] EXCEPT !.queued_ops = stage[Self].queued_ops]
                    = stage[Self]]_vars

\* A second duty has been queued behind the first during round 1.
C18_Witness ==
    /\ last.event = "RunAsElder"
    /\ last.result = "Ok"
    /\ last.ops = <<>>
    /\ stage[Self].tag = "ProposingGenesis"
    /\ Len(stage[Self].queued_ops) = 2

\* C19: a section-leader duty submitted in Stage Elder is executed at once and
\* never queued; one submitted in Infant or Adult is rejected with an error,
\* neither executed nor queued, and leaves the Stage unchanged.
C19_QueueOnlyInTransitionalStages ==
    [][\A duty \in Duties :
          /\ (/\ last'.event = "RunAsElder"
              /\ stage[Self].tag = "Elder"
              /\ RunAsElderCall(duty, "none"))
             => /\ last'.result = "Ok"
                /\ last'.ops = <<ElderOp(duty)>>
                /\ stage'[Self].duties.processed
                       = Append(stage[Self].duties.processed, duty)
                /\ stage'[Self].queued_ops = <<>>
          /\ (/\ last'.event = "RunAsElder"
              /\ stage[Self].tag \in {"Infant", "Adult"})
             => /\ last'.result = "Logic"
                /\ last'.ops = <<>>
                /\ stage'[Self] = stage[Self]]_vars

\* An Adult was given a section-leader duty and refused it.
C19_Witness ==
    /\ last.event = "RunAsElder"
    /\ last.result = "Logic"
    /\ stage[Self] = Adult

\* C20: when signing the node's share fails in ReceiveGenesisProposal or
\* ReceiveGenesisAccumulation, the error is returned with no operations and
\* the Stage after the call equals the Stage before it.
C20_SignFailureLeavesStage ==
    [][\A credit \in Credits, index \in SignerInputs :
          LET s == stage[Self]
              signed == SignedCredit(credit, "valid")
          IN  (/\ last'.result = "Collaborator"
               /\ s.tag \in GenesisTags
               /\ \/ Call(Self, "ReceiveGenesisProposal",
                          receive_genesis_proposal(s, Self, credit,
                              SignatureShare(index, credit), "sign"))
                  \/ Call(Self, "ReceiveGenesisAccumulation",
                          receive_genesis_accumulation(s, Self,
                              node_info[Self].genesis, signed,
                              SignatureShare(index, signed), "sign")))
              => /\ last'.ops = <<>>
                 /\ stage'[Self] = s]_vars

\* C21: no partial-state failure in finalization.  When finalization into
\* Elder fails at any step (constructing the subsystem, initiating it, or
\* processing a replayed duty), the Stage after the call equals the Stage
\* before it, with every queued duty still in the queue in its order.
C21_FinalizationFailureLeavesStage ==
    [][\A wallet_info \in WalletInfos, fail \in {"new", "initiate", "duty"} :
          LET s == stage[Self]
          IN  (/\ last'.event = "InitSectionWallet"
               /\ last'.result = "Collaborator"
               /\ s.tag \in {"AccumulatingGenesis", "AssumingElderDuties"}
               /\ Call(Self, "InitSectionWallet",
                       finish_transition_to_elder(s, node_info[Self].genesis,
                                                  wallet_info, NoArt, fail)))
              => /\ stage'[Self] = s
                 /\ stage'[Self].queued_ops = s.queued_ops]_vars

\* C22: the aggregate of a round is never cleared.  An aggregate the round
\* holds before a call, or forms during a call by recording the call's share,
\* is still there, the same, after the call when the node is still in that
\* round.
C22_AggregateNeverCleared ==
    [][LET s == stage[Self]
           t == stage'[Self]
       IN  /\ (/\ s.tag \in {"ProposingGenesis", "AccumulatingGenesis"}
               /\ s.pending_agreement # NoArt
               /\ t.tag = s.tag)
              => t.pending_agreement = s.pending_agreement
           /\ \A credit \in Credits, index \in SignerInputs, fail \in FailPoints :
                LET signed == SignedCredit(credit, "valid")
                    formed1 == add(s, SignatureShare(index, credit))
                    formed2 == add(s, SignatureShare(index, signed))
                IN  /\ (/\ last'.event = "ReceiveGenesisProposal"
                        /\ s.tag = "ProposingGenesis"
                        /\ formed1.pending_agreement # NoArt
                        /\ t.tag = s.tag
                        /\ Call(Self, "ReceiveGenesisProposal",
                                receive_genesis_proposal(s, Self, credit,
                                    SignatureShare(index, credit), fail)))
                       => t.pending_agreement = formed1.pending_agreement
                    /\ (/\ last'.event = "ReceiveGenesisAccumulation"
                        /\ s.tag = "AccumulatingGenesis"
                        /\ formed2.pending_agreement # NoArt
                        /\ t.tag = s.tag
                        /\ Call(Self, "ReceiveGenesisAccumulation",
                                receive_genesis_accumulation(s, Self,
                                    node_info[Self].genesis, signed,
                                    SignatureShare(index, signed), fail)))
                       => t.pending_agreement = formed2.pending_agreement]_vars

C24_RedundantEventsAbsorbed ==
    [][LET s == stage[Self]
           redundant ==
               \/ /\ last'.event = "ReceiveGenesisProposal"
                  /\ s.tag \in {"AccumulatingGenesis", "Elder"}
               \/ /\ last'.event = "ReceiveGenesisAccumulation"
                  /\ s.tag = "Elder"
               \/ /\ last'.event = "InitSectionWallet"
                  /\ s.tag = "Elder"
       IN  redundant => /\ last'.result = "Ok"
                        /\ last'.ops = <<>>
                        /\ stage'[Self] = s]_vars

\* A proposal has just been absorbed in round 2.
C24_Witness ==
    /\ last.event = "ReceiveGenesisProposal"
    /\ last.result = "Ok"
    /\ last.ops = <<>>
    /\ stage[Self].tag = "AccumulatingGenesis"

C26_AccumulatingAlwaysBroadcast ==
    [][LET s == stage[Self]
           t == stage'[Self]
       IN  (s.tag = "ProposingGenesis" /\ t.tag = "AccumulatingGenesis")
           => last'.ops = <<SendAccumulateGenesis(SectionKey, t.artifact,
                                sign_as_elder(Self, t.artifact))>>]_vars

C28_ThresholdShareFinalizes ==
    [][\A index \in Nodes :
          LET s == stage[Self]
              t == stage'[Self]
          IN  (/\ last'.event = "ReceiveGenesisAccumulation"
               /\ s.tag = "AccumulatingGenesis"
               /\ Cardinality(Signers(s.signatures) \cup {index}) >= Threshold + 1
               /\ Call(Self, "ReceiveGenesisAccumulation",
                       receive_genesis_accumulation(s, Self, node_info[Self].genesis,
                           s.artifact, SignatureShare(index, s.artifact), "none")))
              => /\ last'.result = "Ok"
                 /\ t.tag = "Elder"
                 /\ \E replicas_sig \in {"valid", "invalid"} :
                       LET proof == CreditProof(s.artifact, replicas_sig)
                       IN  /\ t.duties.wallet_info.credits = <<proof>>
                           /\ t.duties.genesis = <<proof>>
                 /\ t.duties.wallet_info.debits = <<>>
                 /\ t.duties.calls = <<"init_genesis_node">> \o s.queued_ops]_vars

\* The last accumulation finalized a node that had two duties queued.
C28_Witness ==
    /\ last.event = "ReceiveGenesisAccumulation"
    /\ stage[Self].tag = "Elder"
    /\ stage[Self].duties.calls = <<"init_genesis_node", "d1", "d2">>
    /\ stage[Self].duties.genesis =
           <<CreditProof(SignedCredit(GenesisCredit, "valid"), "valid")>>

\* C29: a node on the genesis path becomes Elder through the round-2
\* threshold only.  Every step from AwaitingThreshold, Proposing or
\* Accumulating into Elder is a ReceiveGenesisAccumulation whose share makes
\* T+1 distinct signers of round 2, and hands one genesis event to the ledger.
C29_ElderOnlyThroughRoundTwo ==
    [][LET s == stage[Self]
           t == stage'[Self]
       IN  (s.tag \in GenesisTags /\ t.tag = "Elder")
           => /\ last'.event = "ReceiveGenesisAccumulation"
              /\ s.tag = "AccumulatingGenesis"
              /\ \E index \in Nodes :
                    Cardinality(Signers(s.signatures) \cup {index}) >= Threshold + 1
              /\ Len(t.duties.genesis) = 1
              /\ t.duties.genesis[1].kind = "CreditProof"]_vars

C31_WalletHistoryFinalizes ==
    [][\A wallet_info \in WalletInfos :
          LET s == stage[Self]
              t == stage'[Self]
          IN  (/\ last'.event = "InitSectionWallet"
               /\ s.tag = "AssumingElderDuties"
               /\ Call(Self, "InitSectionWallet",
                       init_section_wallet(s, node_info[Self].genesis,
                                           wallet_info, "none")))
              => /\ last'.result = "Ok"
                 /\ t.tag = "Elder"
                 /\ t.duties.wallet_info = wallet_info
                 /\ t.duties.genesis = <<>>
                 /\ t.duties.calls = <<"catchup_with_section">> \o s.queued_ops]_vars

\* A promoted node with a queued duty was finalized on a wallet history that
\* holds a credit.
C31_Witness ==
    /\ last.event = "InitSectionWallet"
    /\ stage[Self].tag = "Elder"
    /\ stage[Self].duties.genesis = <<>>
    /\ Len(stage[Self].duties.wallet_info.credits) = 1
    /\ Len(stage[Self].duties.calls) = 2

\* C32: InitiateElderChange and FinishElderChange are forwarded to the
\* subsystem in Elder only, and the node stays the Elder it was; in every
\* other stage they return Ok with no operations and leave the Stage, its
\* queue included, unchanged.
C32_ElderChangeOnlyInElder ==
    [][LET s == stage[Self]
       IN  last'.event \in {"InitiateElderChange", "FinishElderChange"}
           => /\ last'.result = "Ok"
              /\ stage'[Self] = s
              /\ IF s.tag = "Elder"
                 THEN last'.ops = <<ElderChangeOp(last'.event)>>
                 ELSE last'.ops = <<>>]_vars

\* An elder change reached a node that is still assuming elder duties, with a
\* duty in its queue.
C32_Witness ==
    /\ last.event = "InitiateElderChange"
    /\ last.ops = <<>>
    /\ stage[Self].tag = "AssumingElderDuties"
    /\ stage[Self].queued_ops # <<>>

\* C33: a wallet-history response (InitSectionWallet) in Adult,
\* AwaitingThreshold or Proposing, or in Infant on a node that is not the
\* genesis node, returns an invalid-operation error with no operations and
\* leaves the Stage, its queue included, unchanged.
C33_FinalizationWithoutSeedRejected ==
    [][LET s == stage[Self]
       IN  (/\ last'.event = "InitSectionWallet"
            /\ \/ s.tag \in {"Adult", "AwaitingGenesisThreshold", "ProposingGenesis"}
               \/ s.tag = "Infant" /\ ~node_info[Self].genesis)
           => /\ last'.result = "InvalidOperation"
              /\ last'.ops = <<>>
              /\ stage'[Self] = s]_vars

\* The response was refused in round 1, a duty waiting in the queue.
C33_Witness ==
    /\ last.event = "InitSectionWallet"
    /\ last.result = "InvalidOperation"
    /\ stage[Self].tag = "ProposingGenesis"
    /\ stage[Self].queued_ops # <<>>

\* C38: RegisterWallet succeeds in Adult and in Elder only, where it returns
\* exactly one RegisterWallet message addressed to a section; in Infant and in
\* every transitional stage it returns an invalid-operation error with no
\* operations; the Stage is unchanged in either case.
C38_RegisterWalletAdultOrElder ==
    [][LET s == stage[Self]
       IN  last'.event = "RegisterWallet"
           => /\ stage'[Self] = s
              /\ IF s.tag \in {"Adult", "Elder"}
                 THEN /\ last'.result = "Ok"
                      /\ Len(last'.ops) = 1
                      /\ last'.ops[1].op = "Send"
                      /\ last'.ops[1].msg = "RegisterWallet"
                      /\ last'.ops[1].dst # ""
                 ELSE /\ s.tag \in TransitionalTags \cup {"Infant"}
                      /\ last'.result = "InvalidOperation"
                      /\ last'.ops = <<>>]_vars

\* RegisterWallet was refused in round 2.
C38_Witness ==
    /\ last.event = "RegisterWallet"
    /\ last.result = "InvalidOperation"
    /\ stage[Self].tag = "AccumulatingGenesis"

\* The genesis shortcut itself: InitSectionWallet on a genesis-flagged Infant,
\* no collaborator failing, gives an Elder that replayed nothing and returns
\* what initiation returned followed by add-node and set-wallet.
C34_Shortcut ==
    \A wallet_info \in WalletInfos :
       LET s == stage[Self]
           t == stage'[Self]
       IN  (/\ last'.event = "InitSectionWallet"
            /\ s.tag = "Infant"
            /\ node_info[Self].genesis
            /\ Call(Self, "InitSectionWallet",
                    init_section_wallet(s, TRUE, wallet_info, "none")))
           => /\ last'.result = "Ok"
              /\ t.tag = "Elder"
              /\ t.duties.processed = <<>>
              /\ \E initiated \in {<<>>, <<CatchupOp>>} :
                    last'.ops = initiated \o <<AddNewNode, SetNodeWallet>>

\* A step that takes an Infant past Adult.
C34_SkipsAdult == stage[Self].tag = "Infant" /\ stage'[Self].tag \notin {"Infant", "Adult"}

\* C34 as stated: the genesis shortcut (InitSectionWallet on a genesis-flagged
\* Infant goes to Elder with an empty replay and the two bookkeeping
\* operations) is the only transition that skips Adult.
C34_ShortcutOnlyWayPastAdult ==
    [][/\ C34_Shortcut
       /\ C34_SkipsAdult => /\ last'.event = "InitSectionWallet"
                            /\ stage'[Self].tag = "Elder"
                            /\ node_info[Self].genesis]_vars

\* C34, amended: the genesis shortcut goes from Infant to Elder with an empty
\* replay and the two bookkeeping operations; the only other transition that
\* skips Adult is AssumeElderDuties on a genesis-flagged Infant, which takes
\* it to AwaitingThreshold or to AssumingElderDuties.
C34_OnlyGenesisNodeSkipsAdult ==
    [][/\ C34_Shortcut
       /\ C34_SkipsAdult
          => /\ node_info[Self].genesis
             /\ \/ /\ last'.event = "InitSectionWallet"
                   /\ stage'[Self].tag = "Elder"
                \/ /\ last'.event = "AssumeElderDuties"
                   /\ stage'[Self].tag \in {"AwaitingGenesisThreshold",
                                            "AssumingElderDuties"}]_vars

\* The genesis node has been finalized without ever queueing or replaying a
\* duty, on a wallet history without credits.
C34_Witness ==
    /\ node_info[Self].genesis
    /\ last.event = "InitSectionWallet"
    /\ stage[Self].tag = "Elder"
    /\ stage[Self].duties.processed = <<>>
    /\ stage[Self].duties.wallet_info = EmptyWallet
    /\ last.ops = <<CatchupOp, AddNewNode, SetNodeWallet>>

\* Capability levels: Infant < Adult < AwaitingThreshold < Proposing <
\* Accumulating / AssumingElderDuties < Elder.
C35_Level(s) ==
    CASE s.tag = "Infant" -> 0
      [] s.tag = "Adult" -> 1
      [] s.tag = "AwaitingGenesisThreshold" -> 2
      [] s.tag = "ProposingGenesis" -> 3
      [] s.tag \in {"AccumulatingGenesis", "AssumingElderDuties"} -> 4
      [] s.tag = "Elder" -> 5

\* C35: the Stage is monotone.  No step takes the node to a lower capability
\* level.
C35_StageMonotone ==
    [][C35_Level(stage'[Self]) >= C35_Level(stage[Self])]_vars

\* C37: in every reachable state of a node in Proposing or Accumulating, the
\* round's mapping holds, under the node's own index, the node's share over
\* the artifact of that round.
C37_OwnShareInMapping ==
    stage[Self].tag \in {"ProposingGenesis", "AccumulatingGenesis"}
    => stage[Self].signatures[Self] = stage[Self].artifact

\* C36: each node broadcasts its round-1 share (ProposeGenesis) at most once
\* over its whole lifetime, under any sequence of lifecycle events and message
\* redeliveries.
C36_ProposeGenesisAtMostOnce ==
    proposed <= 1

\* C39: WalletSection::enable moves a PreElder instance to Elder keeping the
\* same transfers and elder state, and can succeed only once: enable on an
\* instance that is already Elder returns an invalid-operation error.
C39_EnableOnce ==
    [][(/\ wallet_section'.call = "enable"
        /\ wallet_section'.calls = wallet_section.calls + 1)
       => IF wallet_section.instance.variant = "PreElder"
          THEN /\ wallet_section'.result = "Ok"
               /\ wallet_section'.instance =
                      [wallet_section.instance EXCEPT !.variant = "Elder"]
          ELSE /\ wallet_section.instance.variant = "Elder"
               /\ wallet_section'.result = "InvalidOperation"
               /\ wallet_section'.instance.variant # "Elder"]_vars

C39_Witness ==
    /\ wallet_section.call = "enable"
    /\ wallet_section.result = "InvalidOperation"
    /\ wallet_section.calls = 3

\* C40: max_section_nanos(prefix_len) equals floor(MAX_SUPPLY / 2^prefix_len):
\* it is MAX_SUPPLY for prefix length 0, MAX_SUPPLY / 2 for prefix length 1,
\* halves (non-increasing) with each extra prefix bit, and is still greater
\* than zero at prefix length 61, with MAX_SUPPLY = u32::MAX * 10^9 fitting in
\* 64 bits.
C40_MaxSectionNanos ==
    [][section_nanos' # section_nanos
       => LET k == section_nanos'.for
              v == section_nanos'.nanos
              before == section_nanos
          IN  /\ v = HalfTimes(<<0>> \o U32_MAX, k)
              /\ k = 0 => v = MAX_SUPPLY
              /\ k = 1 => v = Half(MAX_SUPPLY) /\ Double(v) = MAX_SUPPLY
              /\ k <= 61 => Less(Zero, v)
              /\ before.for = k - 1 /\ k > 0 => v = Half(before.nanos)
              /\ before.for \in 0..k => ~Less(before.nanos, v)
              /\ Less(MAX_SUPPLY, TwoPow(64))]_vars

C40_Witness ==
    /\ section_nanos.for = 61
    /\ Less(Zero, section_nanos.nanos)
    /\ prefix_len = 61

====
